---- MODULE Spec2Model ----
(***************************************************************************)
(* The entity-interaction core of the shooting game: the spaceship         *)
(* (keyboard movement, bullet cooldown, shooting), the Ready -> InPlay     *)
(* state machine and the collision handler, run by the frame loop          *)
(*   First, StateTransition, FixedUpdate passes, Update, command flush.    *)
(* Lengths are in model units, times in milliseconds.                      *)
(***************************************************************************)
EXTENDS Integers, Sequences, FiniteSets, TLC

VARIABLES
    pc,          \* the system the frame loop runs next
    state,       \* State<GameState>: "Ready" or "InPlay"
    next_state,  \* NextState<GameState>: <<>> or <<"InPlay">>
    mode,        \* ControlOption.mode
    window,      \* the Window: [w, h]
    spaceship,   \* whether the Spaceship entity exists
    x, y,        \* the spaceship's Transform.translation
    vx, vy,      \* the spaceship's Velocity
    bullet_cd,   \* Spaceship.bullet_cd: <<>> (None) or <<elapsed ms>>
    keys,        \* the arrow keys pressed in this pass
    movement,    \* SpaceShipMovementEvent triggered in this pass, or "None"
    delta,       \* Time.delta() the cooldown system read in this pass
    fire,        \* whether the fire input is on in this pass (Space, or Hover)
    shots,       \* ShootBulletEvents triggered in this pass
    ufos,        \* the UFO entities: handle -> [st, pos]
    events,      \* CollidedEvents the collision handler has not read yet
    batch,       \* the unread events the collision handler started this frame's scan with
    cmds,        \* commands queued by the collision handler in this frame
    health,      \* the Health of Player(1)
    invisible,   \* whether the spaceship carries Invisible
    explosions   \* positions at which an Explosion was spawned

shipVars == <<x, y, vx, vy, bullet_cd>>
passVars == <<keys, movement, delta, fire, shots>>
collVars == <<ufos, events, batch, cmds, health, invisible, explosions>>
vars == <<pc, state, next_state, mode, window, spaceship, shipVars, passVars, collVars>>

(***************************************************************************)
(* Bounds of the model.                                                    *)
(***************************************************************************)
\* A pass's Time.delta() is 50 ms times 1..MaxDelta.
MaxDelta == 2
\* At most MaxQueue CollidedEvents are unread at any time.
MaxQueue == 2
\* A UFO is spawned at a position in 1..MaxPos.
MaxPos == 2

Deltas == {50 * k : k \in 1..MaxDelta}

(***************************************************************************)
(* Geometry (crate::ui): the reference width, the spaceship's size and the *)
(* edges of the playable area for the spaceship's centre.                  *)
(***************************************************************************)
FULL_WINDOW_SIZE_x == 15

Windows == {[w |-> FULL_WINDOW_SIZE_x, h |-> 15], [w |-> FULL_WINDOW_SIZE_x - 4, h |-> 15]}

get_spaceship_size(w) == IF w >= FULL_WINDOW_SIZE_x THEN [x |-> 5, y |-> 5] ELSE [x |-> 3, y |-> 3]

get_top_edge(h, size) == (h - size) \div 2

get_bottom_edge(h, size) == -((h - size) \div 2)

get_left_edge(w, size) == -((w - size) \div 2)

get_right_edge(w, size) == (w - size) \div 2

meet_top_edge(position, win) == position >= get_top_edge(win.h, get_spaceship_size(win.w).y)

meet_bottom_edge(position, win) == position <= get_bottom_edge(win.h, get_spaceship_size(win.w).y)

\* A left edge met only once the position is past it.
meet_left_edge_strict(position, win) == position < get_left_edge(win.w, get_spaceship_size(win.w).x)

meet_left_edge(position, win) == position <= get_left_edge(win.w, get_spaceship_size(win.w).x)

\* A right edge met only once the position is past it.
meet_right_edge_strict(position, win) == position > get_right_edge(win.w, get_spaceship_size(win.w).x)

meet_right_edge(position, win) == position >= get_right_edge(win.w, get_spaceship_size(win.w).x)

(***************************************************************************)
(* The spaceship.                                                          *)
(***************************************************************************)
ArrowKeys == {"ArrowUp", "ArrowDown", "ArrowLeft", "ArrowRight"}

SpaceShipMovement == {"Up", "UpRight", "Right", "DownRight", "Down", "DownLeft", "Left", "UpLeft", "Rest"}

\* -window.height() / 1.5, the y the spaceship is spawned at
StartY(win) == -((2 * win.h) \div 3)

\* -window.height() / 2.5, the y at which the game goes to InPlay
ThresholdY(win) == -((2 * win.h) \div 5)

\* A spaceship spawned with no velocity.
EntrySpeedStill == 5 - 5

EntrySpeed == 5

CooldownMs == 100

\* The match with arms that do not look at the opposite key: up wins over down.
DecodeUpWins(up, down, left, right) ==
    IF up /\ left /\ ~right THEN "UpLeft"
    ELSE IF up /\ ~left /\ right THEN "UpRight"
    ELSE IF ~up /\ down /\ left /\ ~right THEN "DownLeft"
    ELSE IF ~up /\ down /\ ~left /\ right THEN "DownRight"
    ELSE IF up THEN "Up"
    ELSE IF down THEN "Down"
    ELSE IF left /\ ~right THEN "Left"
    ELSE IF ~left /\ right THEN "Right"
    ELSE "Rest"

\* The match on (up, down, left, right): the first arm that matches.
Decode(up, down, left, right) ==
    IF up /\ ~down /\ left /\ ~right THEN "UpLeft"
    ELSE IF up /\ ~down /\ ~left /\ right THEN "UpRight"
    ELSE IF ~up /\ down /\ left /\ ~right THEN "DownLeft"
    ELSE IF ~up /\ down /\ ~left /\ right THEN "DownRight"
    ELSE IF up /\ ~down THEN "Up"
    ELSE IF ~up /\ down THEN "Down"
    ELSE IF left /\ ~right THEN "Left"
    ELSE IF ~left /\ right THEN "Right"
    ELSE "Rest"

\* The full tier only above the reference width.
full_velocity_above(win) == IF win.w > FULL_WINDOW_SIZE_x THEN 10 ELSE 7

full_velocity(win) == IF win.w >= FULL_WINDOW_SIZE_x THEN 10 ELSE 7

half_velocity(win) == IF win.w >= FULL_WINDOW_SIZE_x THEN 7 ELSE 5

\* velocity.x as handle_spaceship_movement resolves it
VelocityX(m, px, win) ==
    IF m = "Left" /\ ~meet_left_edge(px, win) THEN -full_velocity(win)
    ELSE IF m \in {"UpLeft", "DownLeft"} /\ ~meet_left_edge(px, win) THEN -half_velocity(win)
    ELSE IF m = "Right" /\ ~meet_right_edge(px, win) THEN full_velocity(win)
    ELSE IF m \in {"UpRight", "DownRight"} /\ ~meet_right_edge(px, win) THEN half_velocity(win)
    ELSE 0

\* velocity.y as handle_spaceship_movement resolves it
VelocityY(m, py, win) ==
    IF m = "Up" /\ ~meet_top_edge(py, win) THEN full_velocity(win)
    ELSE IF m \in {"UpLeft", "UpRight"} /\ ~meet_top_edge(py, win) THEN half_velocity(win)
    ELSE IF m = "Down" /\ ~meet_bottom_edge(py, win) THEN -full_velocity(win)
    ELSE IF m \in {"DownLeft", "DownRight"} /\ ~meet_bottom_edge(py, win) THEN -half_velocity(win)
    ELSE 0

\* The observer of SpaceShipMovementEvent: the spaceship's new velocity.
handle_spaceship_movement(m, px, py, win) ==
    IF m = "Rest" THEN <<0, 0>>
    ELSE <<VelocityX(m, px, win), VelocityY(m, py, win)>>

\* A system added without a run condition.
RunInEveryState == TRUE

RunAlsoInReady == TRUE

\* The run conditions of the spaceship's systems.

InReady == state = "Ready"

InPlay == state = "InPlay"

\* A timer that finishes only once the elapsed time exceeds its duration.
TickCooldownLate(cd, d) ==
    IF cd = <<>> THEN <<>>
    ELSE IF cd[1] + d > CooldownMs THEN <<>>
    ELSE <<cd[1] + d>>

\* Timer::tick on a Once timer of CooldownMs, then the check of finished():
\* the bullet_cd left by handle_bullet_cooldown.
\* A timer that is never ticked.
TickCooldownNoAdvance(cd, d) == cd

TickCooldown(cd, d) ==
    IF cd = <<>> THEN <<>>
    ELSE IF cd[1] + d >= CooldownMs THEN <<>>
    ELSE <<cd[1] + d>>

\* A shoot system that does not look at bullet_cd.
ShootsIgnoringCooldown(pressed, cd) == pressed \/ mode = "Hover"

\* Whether handle_shoot_bullet shoots: the fire input is on and no cooldown runs.
Shoots(pressed, cd) == (pressed \/ mode = "Hover") /\ cd = <<>>

(***************************************************************************)
(* Collisions: the entities a CollidedEvent can name, the handler's scan   *)
(* of the unread events and the commands it queues.                        *)
(***************************************************************************)
UFOs == {"ufo1", "ufo2"}

\* the spaceship, the UFOs and an entity that is neither (a bullet)
Entities == {"ship", "bullet"} \cup UFOs

\* Player(1), the tag the spaceship is spawned with
PlayerTag == 1

\* Health::new()
InitialHealth == 3

Contacts == {c \in [entity1 : Entities, entity2 : Entities] : c.entity1 # c.entity2}

\* A query that still answers for a despawned UFO.
IsUFOOnceSpawned(e) == e \in UFOs /\ ufos[e].st # "unspawned"

\* ufo_q.get(e) is Ok: e is a live entity with the UFO component
IsUFO(e) == e \in UFOs /\ ufos[e].st = "alive"

\* spaceship_q.get(e) is Ok: e is the spaceship, which carries Player
IsSpaceship(e) == e = "ship" /\ spaceship

Cmd(op, entity, val) == [op |-> op, entity |-> entity, val |-> val]

\* The commands with the two entities taken for each other.
handle_ufo_spaceship_collision_swapped(player, player_entity, ufo_position, ufo_entity) ==
    << Cmd("HealthReduce", "", player),
       Cmd("InsertInvisible", ufo_entity, 0),
       Cmd("SpawnExplosion", "", ufo_position),
       Cmd("RemoveUFO", player_entity, 0) >>

\* The four commands queued for one ufo-spaceship collision, in order.
handle_ufo_spaceship_collision(player, player_entity, ufo_position, ufo_entity) ==
    << Cmd("HealthReduce", "", player),
       Cmd("InsertInvisible", player_entity, 0),
       Cmd("SpawnExplosion", "", ufo_position),
       Cmd("RemoveUFO", ufo_entity, 0) >>

\* The loop going on to the next event after a ufo-spaceship pair.
RECURSIVE handle_collisions_all(_)
handle_collisions_all(q) ==
    IF q = <<>> THEN [cmds |-> <<>>, unread |-> <<>>]
    ELSE LET c == Head(q)
             rest == handle_collisions_all(Tail(q))
         IN  IF IsUFO(c.entity1) /\ IsSpaceship(c.entity2)
             THEN [cmds |-> handle_ufo_spaceship_collision(
                                PlayerTag, c.entity2, ufos[c.entity1].pos, c.entity1) \o rest.cmds,
                   unread |-> <<>>]
             ELSE IF IsSpaceship(c.entity1) /\ IsUFO(c.entity2)
             THEN [cmds |-> handle_ufo_spaceship_collision(
                                PlayerTag, c.entity1, ufos[c.entity2].pos, c.entity2) \o rest.cmds,
                   unread |-> <<>>]
             ELSE rest

\* The loop over collision_events.read(): the commands queued and the events
\* left unread. The handler returns at the first ufo-spaceship pair, and the
\* reader's cursor has then advanced only past the events iterated so far.
RECURSIVE handle_collisions(_)
handle_collisions(q) ==
    IF q = <<>> THEN [cmds |-> <<>>, unread |-> <<>>]
    ELSE LET c == Head(q)
         IN  IF IsUFO(c.entity1) /\ IsSpaceship(c.entity2)
             THEN [cmds |-> handle_ufo_spaceship_collision(
                                PlayerTag, c.entity2, ufos[c.entity1].pos, c.entity1),
                   unread |-> Tail(q)]
             ELSE IF IsSpaceship(c.entity1) /\ IsUFO(c.entity2)
             THEN [cmds |-> handle_ufo_spaceship_collision(
                                PlayerTag, c.entity1, ufos[c.entity2].pos, c.entity2),
                   unread |-> Tail(q)]
             ELSE handle_collisions(Tail(q))

\* The world after one queued command is applied.
ApplyCommand(c, wld) ==
    IF c.op = "HealthReduce" THEN [wld EXCEPT !.health = @ - 1]
    ELSE IF c.op = "InsertInvisible"
    THEN IF c.entity = "ship" THEN [wld EXCEPT !.invisible = TRUE] ELSE wld
    ELSE IF c.op = "SpawnExplosion" THEN [wld EXCEPT !.explosions = @ \cup {c.val}]
    ELSE IF c.op = "RemoveUFO" /\ c.entity \in UFOs /\ wld.ufos[c.entity].st = "alive"
    THEN [wld EXCEPT !.ufos[c.entity] = [st |-> "removed", pos |-> 0]]
    ELSE wld

RECURSIVE ApplyCommands(_, _)
ApplyCommands(cs, wld) ==
    IF cs = <<>> THEN wld ELSE ApplyCommands(Tail(cs), ApplyCommand(Head(cs), wld))

\* The handler writing to the world while it scans.
AppliedAtOnce(cs, wld) == ApplyCommands(cs, wld)

\* The handler writes through Commands only: the commands cs are queued, and
\* the world the handler runs on is left as it is.
Deferred(cs, wld) == wld

(***************************************************************************)
(* The state after OnEnter(AppState::Game): setup_spaceship has run.       *)
(***************************************************************************)
Init ==
    /\ pc = "First"
    /\ state = "Ready"
    /\ next_state = <<>>
    /\ mode \in {"Keyboard", "Hover"}
    /\ window \in Windows
    /\ spaceship = TRUE
    /\ x = 0
    /\ y = StartY(window)
    /\ vx = 0
    /\ vy = EntrySpeed
    /\ bullet_cd = <<>>
    /\ keys = {}
    /\ movement = "None"
    /\ delta = 0
    /\ fire = FALSE
    /\ shots = <<>>
    /\ ufos = [u \in UFOs |-> [st |-> "unspawned", pos |-> 0]]
    /\ events = <<>>
    /\ batch = <<>>
    /\ cmds = <<>>
    /\ health = InitialHealth
    /\ invisible = FALSE
    /\ explosions = {}

(***************************************************************************)
(* The frame loop. Each action is one system; pc is the schedule. A frame  *)
(* is one tick: the events' update, the state transition, one pass of      *)
(* FixedUpdate, Update, the command flush and the move.                    *)
(***************************************************************************)
NoPass ==
    /\ keys' = {}
    /\ movement' = "None"
    /\ delta' = 0
    /\ fire' = FALSE
    /\ shots' = <<>>

\* First: the events' update. When it runs, the events sent before the
\* previous update are dropped; the others stay readable for one more update.
event_update_system(update) ==
    /\ pc = "First"
    /\ pc' = "StateTransition"
    /\ events' = IF update
                 THEN [i \in 1..Len(SelectSeq(events, LAMBDA e : e.age = 0)) |->
                          [SelectSeq(events, LAMBDA e : e.age = 0)[i] EXCEPT !.age = 1]]
                 ELSE events
    /\ UNCHANGED <<state, next_state, mode, window, spaceship, shipVars, passVars,
                   ufos, batch, cmds, health, invisible, explosions>>

\* StateTransition: a queued NextState becomes the state.
apply_state_transition ==
    /\ pc = "StateTransition"
    /\ pc' = "Keyboard"
    /\ state' = IF next_state # <<>> THEN next_state[1] ELSE state
    /\ next_state' = <<>>
    /\ UNCHANGED <<mode, window, spaceship, shipVars, passVars, collVars>>

\* FixedUpdate, in InPlay: the keyboard system and the observer it triggers.
handle_spaceship_keyboard_interaction(pressed) ==
    /\ pc = "Keyboard"
    /\ pc' = "Cooldown"
    /\ keys' = pressed
    /\ IF InPlay /\ mode = "Keyboard"
       THEN LET m == Decode("ArrowUp" \in pressed, "ArrowDown" \in pressed,
                            "ArrowLeft" \in pressed, "ArrowRight" \in pressed)
                v == handle_spaceship_movement(m, x, y, window)
            IN  /\ movement' = m
                /\ IF spaceship    \* let Ok(..) = get_single_mut() else { return; }
                   THEN vx' = v[1] /\ vy' = v[2]
                   ELSE UNCHANGED <<vx, vy>>
       ELSE UNCHANGED <<movement, vx, vy>>
    /\ UNCHANGED <<state, next_state, mode, window, spaceship, x, y, bullet_cd,
                   delta, fire, shots, collVars>>

\* FixedUpdate, in InPlay: the cooldown advances by the pass's delta. The
\* system unwraps get_single_mut(): with no spaceship it panics.
handle_bullet_cooldown(d) ==
    /\ pc = "Cooldown"
    /\ pc' = IF InPlay /\ ~spaceship THEN "Panic" ELSE "Shoot"
    /\ IF InPlay /\ spaceship /\ bullet_cd # <<>>
       THEN /\ delta' = d
            /\ bullet_cd' = TickCooldown(bullet_cd, d)
       ELSE UNCHANGED <<delta, bullet_cd>>
    /\ UNCHANGED <<state, next_state, mode, window, spaceship, x, y, vx, vy,
                   keys, movement, fire, shots, collVars>>

\* FixedUpdate, in InPlay, after the cooldown system: the shoot system. With
\* the fire input on it unwraps get_single_mut(): with no spaceship it panics.
handle_shoot_bullet(pressed) ==
    /\ pc = "Shoot"
    /\ pc' = IF InPlay /\ (pressed \/ mode = "Hover") /\ ~spaceship THEN "Panic" ELSE "FixedDone"
    /\ fire' = (pressed \/ mode = "Hover")
    /\ IF InPlay /\ spaceship /\ Shoots(pressed, bullet_cd)
       THEN /\ shots' = Append(shots, [x |-> x, y |-> y])
            /\ bullet_cd' = <<0>>
       ELSE UNCHANGED <<shots, bullet_cd>>
    /\ UNCHANGED <<state, next_state, mode, window, spaceship, x, y, vx, vy,
                   keys, movement, delta, collVars>>

\* The pass of FixedUpdate is over: its triggers are delivered, and what it
\* read and triggered is forgotten.
EndFixedUpdate ==
    /\ pc = "FixedDone"
    /\ pc' = "CheckPosition"
    /\ NoPass
    /\ UNCHANGED <<state, next_state, mode, window, spaceship, shipVars, collVars>>

\* Update, in Ready: the spaceship has come up to the threshold. The system
\* unwraps get_single_mut(): with no spaceship it panics.
check_spaceship_position ==
    /\ pc = "CheckPosition"
    /\ pc' = IF InReady /\ ~spaceship THEN "Panic" ELSE "Collisions"
    /\ IF InReady /\ spaceship /\ y >= ThresholdY(window)
       THEN /\ vy' = 0
            /\ next_state' = <<"InPlay">>
       ELSE UNCHANGED <<vy, next_state>>
    /\ UNCHANGED <<state, mode, window, spaceship, x, y, vx, bullet_cd, passVars, collVars>>

\* The spawn logic: a UFO that was never spawned comes to life.
SpawnUFO ==
    /\ pc = "Collisions"
    /\ \E u \in UFOs, p \in 1..MaxPos :
          /\ ufos[u].st = "unspawned"
          /\ ufos' = [ufos EXCEPT ![u] = [st |-> "alive", pos |-> p]]
    /\ UNCHANGED <<pc, state, next_state, mode, window, spaceship, shipVars, passVars,
                   events, batch, cmds, health, invisible, explosions>>

\* The collision detection: one more CollidedEvent is sent in this frame,
\* before the collision handler runs.
SendCollidedEvent ==
    /\ pc = "Collisions"
    /\ Len(events) < MaxQueue
    /\ \E c \in Contacts :
          events' = Append(events, [entity1 |-> c.entity1, entity2 |-> c.entity2, age |-> 0])
    /\ UNCHANGED <<pc, state, next_state, mode, window, spaceship, shipVars, passVars,
                   ufos, batch, cmds, health, invisible, explosions>>

\* Update, in every state: the collision handler.
HandleCollisions ==
    /\ pc = "Collisions"
    /\ pc' = "Flush"
    /\ LET r == handle_collisions(events)
           wld == Deferred(r.cmds, [health |-> health, invisible |-> invisible,
                                    ufos |-> ufos, explosions |-> explosions])
       IN  /\ cmds' = r.cmds
           /\ events' = r.unread
           /\ health' = wld.health
           /\ invisible' = wld.invisible
           /\ ufos' = wld.ufos
           /\ explosions' = wld.explosions
    /\ batch' = events
    /\ UNCHANGED <<state, next_state, mode, window, spaceship, shipVars, passVars>>

\* The end of Update: the queued commands are applied.
FlushCommands ==
    /\ pc = "Flush"
    /\ pc' = "Move"
    /\ LET wld == ApplyCommands(cmds, [health |-> health, invisible |-> invisible,
                                       ufos |-> ufos, explosions |-> explosions])
       IN  /\ health' = wld.health
           /\ invisible' = wld.invisible
           /\ ufos' = wld.ufos
           /\ explosions' = wld.explosions
    /\ cmds' = <<>>
    /\ batch' = <<>>
    /\ UNCHANGED <<state, next_state, mode, window, spaceship, shipVars, passVars, events>>

\* The velocity is applied to the position.
ApplyVelocity ==
    /\ pc = "Move"
    /\ pc' = "First"
    /\ x' = IF spaceship THEN x + vx ELSE x
    /\ y' = IF spaceship THEN y + vy ELSE y
    /\ UNCHANGED <<state, next_state, mode, window, spaceship, vx, vy, bullet_cd, passVars, collVars>>

\* The match ends between two frames: the spaceship is despawned.
DespawnSpaceship ==
    /\ pc = "First"
    /\ spaceship
    /\ spaceship' = FALSE
    /\ UNCHANGED <<pc, state, next_state, mode, window, shipVars, passVars, collVars>>

(***************************************************************************)
(* Spec: the spaceship under every keyboard input, with no contact sent.   *)
(***************************************************************************)
Next ==
    \/ \E update \in BOOLEAN : event_update_system(update)
    \/ apply_state_transition
    \/ \E pressed \in SUBSET ArrowKeys : handle_spaceship_keyboard_interaction(pressed)
    \/ \E d \in Deltas : handle_bullet_cooldown(d)
    \/ \E pressed \in BOOLEAN : handle_shoot_bullet(pressed)
    \/ EndFixedUpdate
    \/ check_spaceship_position
    \/ HandleCollisions
    \/ FlushCommands
    \/ ApplyVelocity

Spec == Init /\ [][Next]_vars

(***************************************************************************)
(* SpecCollision: the collision handler under every batch of contacts, in  *)
(* the full-size window, with keyboard control and no key pressed.         *)
(***************************************************************************)
NextCollision ==
    \/ \E update \in BOOLEAN : event_update_system(update)
    \/ apply_state_transition
    \/ handle_spaceship_keyboard_interaction({})
    \/ \E d \in Deltas : handle_bullet_cooldown(d)
    \/ handle_shoot_bullet(FALSE)
    \/ EndFixedUpdate
    \/ check_spaceship_position
    \/ SpawnUFO
    \/ SendCollidedEvent
    \/ HandleCollisions
    \/ FlushCommands
    \/ ApplyVelocity

InitCollision == Init /\ mode = "Keyboard" /\ window.w = FULL_WINDOW_SIZE_x

SpecCollision == InitCollision /\ [][NextCollision]_vars

(***************************************************************************)
(* SpecDespawn: the spaceship may be despawned while the systems keep      *)
(* running; the keyboard is idle or holds ArrowRight.                      *)
(***************************************************************************)
NextDespawn ==
    \/ \E update \in BOOLEAN : event_update_system(update)
    \/ apply_state_transition
    \/ \E pressed \in {{}, {"ArrowRight"}} : handle_spaceship_keyboard_interaction(pressed)
    \/ \E d \in Deltas : handle_bullet_cooldown(d)
    \/ \E pressed \in BOOLEAN : handle_shoot_bullet(pressed)
    \/ EndFixedUpdate
    \/ check_spaceship_position
    \/ HandleCollisions
    \/ FlushCommands
    \/ ApplyVelocity
    \/ DespawnSpaceship

SpecDespawn == Init /\ [][NextDespawn]_vars

(***************************************************************************)
(* SpecLive: the frame loop never stops (weak fairness of its step); the   *)
(* keyboard is idle, the fire input and the delta are free.                *)
(***************************************************************************)
NextLive ==
    \/ \E update \in BOOLEAN : event_update_system(update)
    \/ apply_state_transition
    \/ handle_spaceship_keyboard_interaction({})
    \/ \E d \in Deltas : handle_bullet_cooldown(d)
    \/ \E pressed \in BOOLEAN : handle_shoot_bullet(pressed)
    \/ EndFixedUpdate
    \/ check_spaceship_position
    \/ HandleCollisions
    \/ FlushCommands
    \/ ApplyVelocity

SpecLive == Init /\ [][NextLive]_vars /\ WF_vars(NextLive)

(***************************************************************************)
(* Properties of the collision handler, checked under SpecCollision. They  *)
(* speak of the state right after the handler has run (pc = "Flush"): the  *)
(* batch it scanned, the commands it queued, the world not yet changed.    *)
(***************************************************************************)
Scanned == pc = "Flush"

\* a live hostile, and a player<->hostile pair, as the claims mean them
Hostile(e) == e \in UFOs /\ ufos[e].st = "alive"

PlayerHostile(c) ==
    \/ c.entity1 = "ship" /\ Hostile(c.entity2)
    \/ c.entity2 = "ship" /\ Hostile(c.entity1)

HostileOf(c) == IF c.entity1 = "ship" THEN c.entity2 ELSE c.entity1

ActionablePairs(q) == {i \in 1..Len(q) : PlayerHostile(q[i])}

HostilesHit(q) == {HostileOf(q[i]) : i \in ActionablePairs(q)}

CountOp(cs, op) == Cardinality({i \in 1..Len(cs) : cs[i].op = op})

CmdSet(cs) == {cs[i] : i \in 1..Len(cs)}

\* The command set the claims give for the player and the hostile u.
CommandSetFor(u) ==
    { Cmd("HealthReduce", "", PlayerTag),
      Cmd("InsertInvisible", "ship", 0),
      Cmd("SpawnExplosion", "", ufos[u].pos),
      Cmd("RemoveUFO", u, 0) }

\* C1: every player<->hostile pair of a tick's batch gets its own command set in
\* that tick: with N actionable pairs against N distinct hostiles, the handler
\* queues N HealthReduce, N SpawnExplosion and N RemoveUFO, one per hostile.
C1_EveryPairResolved ==
    Scanned /\ state = "InPlay"
            /\ Cardinality(ActionablePairs(batch)) = Cardinality(HostilesHit(batch))
    => /\ CountOp(cmds, "HealthReduce") = Cardinality(HostilesHit(batch))
       /\ CountOp(cmds, "SpawnExplosion") = Cardinality(HostilesHit(batch))
       /\ CountOp(cmds, "RemoveUFO") = Cardinality(HostilesHit(batch))
       /\ \A u \in HostilesHit(batch) : Cmd("RemoveUFO", u, 0) \in CmdSet(cmds)

\* C2: a batch of one contact between the player and a hostile H, in either
\* order, queues exactly four commands: HealthReduce(the player's tag),
\* Invisible on the player, an Explosion at H's position, the removal of H.
C2_SingleContact ==
    Scanned /\ Len(batch) = 1 /\ PlayerHostile(batch[1])
    => /\ Len(cmds) = 4
       /\ CmdSet(cmds) = CommandSetFor(HostileOf(batch[1]))

\* C2's case: the pair was reported hostile first, and the hostile is removed.
C2_Witness ==
    /\ Scanned
    /\ Len(batch) = 1
    /\ batch[1].entity2 = "ship"
    /\ Hostile(batch[1].entity1)
    /\ Cmd("RemoveUFO", batch[1].entity1, 0) \in CmdSet(cmds)

\* the batch q in the order given by the permutation f of its indices
Permuted(q, f) == [i \in 1..Len(q) |-> q[f[i]]]

\* C3: the commands queued for a tick's batch are the same for every
\* permutation of the batch.
C3_OrderIndependent ==
    Scanned /\ state = "InPlay" =>
        \A f \in Permutations(1..Len(batch)) :
            CmdSet(handle_collisions(Permuted(batch, f)).cmds) = CmdSet(cmds)

\* C4: a pair that is not player<->hostile queues nothing and changes nothing
\* (health, Invisible, the UFOs), and it does not stop the scan: a
\* player<->hostile pair after it is still resolved.
C4_OtherPairsIgnored ==
    /\ [](Scanned /\ ActionablePairs(batch) = {} => cmds = <<>>)
    /\ [](Scanned /\ ActionablePairs(batch) # {} => cmds # <<>>)
    /\ [][Scanned /\ ActionablePairs(batch) = {}
            => UNCHANGED <<health, invisible, ufos, explosions>>]_vars

\* C4's case: the player with a removed handle, then a player<->hostile pair.
C4_Witness ==
    /\ Scanned
    /\ Len(batch) = 2
    /\ batch[1].entity1 = "ship"
    /\ batch[1].entity2 \in UFOs
    /\ ufos[batch[1].entity2].st = "removed"
    /\ PlayerHostile(batch[2])
    /\ cmds # <<>>

\* C9: in a tick whose state is Ready, the collision handler queues nothing.
C9_NoCollisionInReady == Scanned /\ state = "Ready" => cmds = <<>>

(***************************************************************************)
(* Properties of the spaceship and of the state machine, checked under     *)
(* Spec.                                                                   *)
(***************************************************************************)
FixedUpdateSystems == {"Keyboard", "Cooldown", "Shoot"}

\* C5: when a cooldown is present as the shoot system runs, it triggers no
\* ShootBulletEvent whatever the fire input; and no pass triggers more than one.
C5_NoShotDuringCooldown ==
    /\ [][pc = "Shoot" /\ bullet_cd # <<>> => shots' = <<>> /\ bullet_cd' = bullet_cd]_vars
    /\ [](Len(shots) <= 1)

\* C5's case: the fire input was on with a cooldown running, and nothing was shot.
C5_Witness ==
    /\ pc = "FixedDone"
    /\ state = "InPlay"
    /\ fire
    /\ bullet_cd # <<>>
    /\ bullet_cd # <<0>>
    /\ shots = <<>>

\* C6: the cooldown's elapsed time is the sum of the deltas since the shot; the
\* cooldown system clears the timer in the pass in which that sum reaches 100 ms
\* (>=) and no system clears it before; and when the fire input is on in a pass
\* that finds no timer as the shoot system runs (the cooldown system ran first),
\* exactly one ShootBulletEvent at the spaceship's position is triggered and a
\* timer with no elapsed time is started.
C6_CooldownExpiry ==
    /\ [][pc = "Cooldown" /\ state = "InPlay" /\ bullet_cd # <<>>
            => bullet_cd' = IF bullet_cd[1] + delta' >= 100
                            THEN <<>> ELSE <<bullet_cd[1] + delta'>>]_vars
    /\ [][pc # "Cooldown" /\ bullet_cd # <<>> => bullet_cd' = bullet_cd]_vars
    /\ [][pc = "Shoot" /\ state = "InPlay" /\ bullet_cd = <<>> /\ fire'
            => shots' = <<[x |-> x, y |-> y]>> /\ bullet_cd' = <<0>>]_vars

\* C6's case: the pass whose 50 ms bring the cooldown to exactly 100 ms, with the
\* fire input on: the timer was cleared and the shot restarted it.
C6_Witness ==
    /\ pc = "FixedDone"
    /\ delta = 50
    /\ fire
    /\ shots = <<[x |-> x, y |-> y]>>
    /\ bullet_cd = <<0>>

\* C7: the Ready -> InPlay transition fires once. The check that finds the
\* spaceship at or above the threshold zeroes its velocity and queues InPlay;
\* when the state becomes InPlay the velocity is (0, 0); in InPlay no transition
\* is queued again and the state never goes back to Ready.
C7_TransitionOnce ==
    /\ [][pc = "CheckPosition" /\ state = "Ready" /\ y >= ThresholdY(window)
            => next_state' = <<"InPlay">> /\ vx' = 0 /\ vy' = 0]_vars
    /\ [][next_state = <<>> /\ next_state' # <<>>
            => pc = "CheckPosition" /\ state = "Ready" /\ y >= ThresholdY(window)]_vars
    /\ [][state = "Ready" /\ state' = "InPlay" => vx' = 0 /\ vy' = 0]_vars
    /\ [][state = "InPlay" => state' = "InPlay" /\ next_state' = <<>>]_vars

\* C7's case: the first state in InPlay, the spaceship above the threshold at rest.
C7_Witness ==
    /\ state = "InPlay"
    /\ pc = "Keyboard"
    /\ y >= ThresholdY(window)
    /\ y - EntrySpeed < ThresholdY(window)
    /\ vx = 0
    /\ vy = 0
    /\ next_state = <<>>

\* C8: in Ready the keyboard, cooldown and shoot systems change nothing: the
\* velocity stays the entry velocity until the position check zeroes it, no
\* ShootBulletEvent is triggered and no cooldown started; in InPlay the position
\* check changes nothing; and no FixedUpdate system runs while a transition is
\* queued: movement and firing first run in the tick after the request.
C8_SystemsGatedByState ==
    /\ [][state = "Ready" /\ pc \in FixedUpdateSystems
            => UNCHANGED <<vx, vy, bullet_cd, shots, movement>>]_vars
    /\ [](state = "Ready" => bullet_cd = <<>> /\ shots = <<>> /\ movement = "None")
    /\ [](state = "Ready" /\ next_state = <<>> => vx = 0 /\ vy = EntrySpeed)
    /\ [][state = "InPlay" /\ pc = "CheckPosition" => UNCHANGED <<vx, vy, next_state>>]_vars
    /\ [](next_state # <<>> => state = "Ready" /\ pc \notin FixedUpdateSystems \cup {"FixedDone"})

\* C8's case: a pass in Ready with an arrow key and the fire input on, which
\* left the entry velocity and shot nothing.
C8_Witness ==
    /\ state = "Ready"
    /\ pc = "FixedDone"
    /\ "ArrowLeft" \in keys
    /\ fire
    /\ vx = 0
    /\ vy = EntrySpeed
    /\ shots = <<>>

\* C10: the movement triggered for the pressed arrow keys is one of the nine
\* classes and is decided axis by axis: Up iff up and not down, Down iff down and
\* not up, Left iff left and not right, Right iff right and not left, and Rest
\* when neither axis moves.
Vertical(pressed) ==
    IF "ArrowUp" \in pressed /\ "ArrowDown" \notin pressed THEN "Up"
    ELSE IF "ArrowDown" \in pressed /\ "ArrowUp" \notin pressed THEN "Down"
    ELSE ""

Horizontal(pressed) ==
    IF "ArrowLeft" \in pressed /\ "ArrowRight" \notin pressed THEN "Left"
    ELSE IF "ArrowRight" \in pressed /\ "ArrowLeft" \notin pressed THEN "Right"
    ELSE ""

ClassOf(v, h) ==
    IF v = "" /\ h = "" THEN "Rest"
    ELSE IF v = "Up" THEN (IF h = "Left" THEN "UpLeft" ELSE IF h = "Right" THEN "UpRight" ELSE "Up")
    ELSE IF v = "Down" THEN (IF h = "Left" THEN "DownLeft" ELSE IF h = "Right" THEN "DownRight" ELSE "Down")
    ELSE h

C10_DecoderAxisWise ==
    movement # "None"
    => /\ movement \in SpaceShipMovement
       /\ movement = ClassOf(Vertical(keys), Horizontal(keys))

\* C10's case: up and down held with left: the vertical axis cancels.
C10_Witness ==
    /\ keys = {"ArrowUp", "ArrowDown", "ArrowLeft"}
    /\ movement = "Left"

(***************************************************************************)
(* Properties of the velocity the movement observer resolves, checked      *)
(* under Spec. While movement is set, x and y are the position the         *)
(* observer read.                                                          *)
(***************************************************************************)
Resolved == movement # "None"

TopEdge == get_top_edge(window.h, get_spaceship_size(window.w).y)

BottomEdge == get_bottom_edge(window.h, get_spaceship_size(window.w).y)

LeftEdge == get_left_edge(window.w, get_spaceship_size(window.w).x)

RightEdge == get_right_edge(window.w, get_spaceship_size(window.w).x)

\* the direction of a movement class on each axis: -1, 0 or 1
HDir(m) ==
    IF m \in {"Left", "UpLeft", "DownLeft"} THEN -1
    ELSE IF m \in {"Right", "UpRight", "DownRight"} THEN 1 ELSE 0

VDir(m) ==
    IF m \in {"Down", "DownLeft", "DownRight"} THEN -1
    ELSE IF m \in {"Up", "UpLeft", "UpRight"} THEN 1 ELSE 0

\* the speed of a movement class on the axes it moves on: 10 along an axis and
\* 7 on a diagonal at the reference width or above, 7 and 5 below it
TierSpeed(m) ==
    IF window.w >= FULL_WINDOW_SIZE_x
    THEN (IF HDir(m) # 0 /\ VDir(m) # 0 THEN 7 ELSE 10)
    ELSE (IF HDir(m) # 0 /\ VDir(m) # 0 THEN 5 ELSE 7)

\* the velocity of a movement class for a spaceship strictly inside the edges
FreeVX(m) == HDir(m) * TierSpeed(m)

FreeVY(m) == VDir(m) * TierSpeed(m)

\* C11: at or beyond an edge (x <= left, x >= right, y <= bottom, y >= top) the
\* resolved velocity component toward that edge is 0; a component away from the
\* edge, and the other axis's component, are what they are strictly inside.
C11_ClampedAtEdge ==
    Resolved
    => /\ vx = IF \/ HDir(movement) = -1 /\ x <= LeftEdge
                  \/ HDir(movement) = 1 /\ x >= RightEdge
               THEN 0 ELSE FreeVX(movement)
       /\ vy = IF \/ VDir(movement) = -1 /\ y <= BottomEdge
                  \/ VDir(movement) = 1 /\ y >= TopEdge
               THEN 0 ELSE FreeVY(movement)

\* C11's case: exactly on the left edge with Left and Up held: no velocity
\* leftwards, the diagonal speed upwards.
C11_Witness ==
    /\ Resolved
    /\ x = LeftEdge
    /\ y < TopEdge
    /\ movement = "UpLeft"
    /\ vx = 0
    /\ vy = FreeVY("UpLeft")

\* C12: strictly inside the edges the velocity is the tier's: the full tier (10
\* along an axis, 7 on both axes of a diagonal) when the window is at least as
\* wide as the reference width, the reduced tier (7 and 5) when it is narrower;
\* an axis-aligned class has 0 on the other axis.
C12_SpeedTier ==
    Resolved /\ LeftEdge < x /\ x < RightEdge /\ BottomEdge < y /\ y < TopEdge
    => /\ vx = FreeVX(movement)
       /\ vy = FreeVY(movement)
       /\ (movement \in {"Left", "Right"} => vy = 0 /\ vx \in {-10, 10, -7, 7})
       /\ (window.w = FULL_WINDOW_SIZE_x /\ movement = "Right" => vx = 10)
       /\ (window.w < FULL_WINDOW_SIZE_x /\ movement = "Right" => vx = 7)
       /\ (window.w = FULL_WINDOW_SIZE_x /\ movement = "UpRight" => vx = 7 /\ vy = 7)
       /\ (window.w < FULL_WINDOW_SIZE_x /\ movement = "UpRight" => vx = 5 /\ vy = 5)

\* C12's case: a window exactly as wide as the reference width, the spaceship
\* strictly inside, moving right at the full speed.
C12_Witness ==
    /\ Resolved
    /\ window.w = FULL_WINDOW_SIZE_x
    /\ LeftEdge < x /\ x < RightEdge /\ BottomEdge < y /\ y < TopEdge
    /\ movement = "Right"
    /\ vx = 10
    /\ vy = 0

\* C13: in InPlay the spaceship's position is within the edges.
C13_InsideBoundary ==
    state = "InPlay"
    => LeftEdge <= x /\ x <= RightEdge /\ BottomEdge <= y /\ y <= TopEdge

\* the axis speed of the window's tier
AxisSpeed == IF window.w >= FULL_WINDOW_SIZE_x THEN 10 ELSE 7

\* C20: with keyboard control the spaceship, inside the edges when InPlay begins,
\* is never past an edge by a tick's axis speed or more, and once at or past an
\* edge it does not move further outward on that axis.
C20_BoundedOvershoot ==
    /\ [](state = "InPlay" /\ mode = "Keyboard"
            => /\ x < RightEdge + AxisSpeed /\ x > LeftEdge - AxisSpeed
               /\ y < TopEdge + AxisSpeed /\ y > BottomEdge - AxisSpeed)
    /\ [][state = "InPlay" /\ mode = "Keyboard"
            => /\ (x >= RightEdge => x' <= x) /\ (x <= LeftEdge => x' >= x)
               /\ (y >= TopEdge => y' <= y) /\ (y <= BottomEdge => y' >= y)]_vars
    /\ [][state = "Ready" /\ state' = "InPlay"
            => LeftEdge <= x' /\ x' <= RightEdge /\ BottomEdge <= y' /\ y' <= TopEdge]_vars

\* C20's case: one step short of the right edge, a full step to the right: the
\* spaceship is past the edge by the axis speed less one.
C20_Witness ==
    /\ state = "InPlay"
    /\ mode = "Keyboard"
    /\ x = RightEdge + AxisSpeed - 1
\* C14: with no spaceship, a system that runs skips its work and the program
\* keeps running: no panic is reached, whatever the input.
C14_MissingActorSkipped == ~spaceship => pc # "Panic"

(***************************************************************************)
(* Further properties of the collision handler, checked under              *)
(* SpecCollision.                                                          *)
(***************************************************************************)
World == [health |-> health, invisible |-> invisible, ufos |-> ufos, explosions |-> explosions]

\* C15: the scan changes no health, no Invisible and removes no UFO; these
\* change only when the queued commands are applied after the scan, and the
\* frame's systems have all run by then, so the change is first seen by the
\* systems of the following frame.
C15_ResolveThenApply ==
    /\ [][pc = "Collisions"
            => /\ health' = health
               /\ invisible' = invisible
               /\ \A u \in UFOs : ufos[u].st = "alive" => ufos'[u].st = "alive"]_vars
    /\ [][\/ health' # health
          \/ invisible' # invisible
          \/ \E u \in UFOs : ufos[u].st = "alive" /\ ufos'[u].st # "alive"
            => pc = "Flush" /\ cmds # <<>> /\ pc' = "Move"]_vars
    /\ [][pc = "Move" => pc' = "First"]_vars

\* C15's case: the scan has queued the commands of a contact, and the health,
\* the Invisible mark and the UFO are still as the scan found them.
C15_Witness ==
    /\ Scanned
    /\ Len(cmds) = 4
    /\ health = InitialHealth
    /\ ~invisible
    /\ Hostile(cmds[4].entity)

\* C16: while the spaceship carries Invisible, a player<->hostile contact
\* reported in InPlay queues no HealthReduce.
C16_NoDamageWhileInvisible ==
    Scanned /\ state = "InPlay" /\ invisible => CountOp(cmds, "HealthReduce") = 0

\* the batch q reports the contact of the player and u in both orders
ReportedTwice(q, u) ==
    \E i, j \in 1..Len(q) :
        /\ q[i].entity1 = "ship" /\ q[i].entity2 = u
        /\ q[j].entity1 = u /\ q[j].entity2 = "ship"

C18_EntryEnds ==
    /\ state = "Ready" /\ y = StartY(window) /\ y < ThresholdY(window) /\ vy > 0
    /\ <>(state = "InPlay")

\* C18's case: the spaceship has risen to the threshold, has been stopped, and
\* the state has become InPlay.
C18_Witness ==
    /\ state = "InPlay"
    /\ y >= ThresholdY(window)
    /\ y > StartY(window)
    /\ vy = 0

\* C19: in InPlay a cooldown timer that is present is eventually absent again,
\* whether or not the fire input is on; the shoot system never resets or
\* extends a timer that is present, and the timer's elapsed time never goes
\* back.
C19_CooldownExpires ==
    /\ [](state = "InPlay" /\ bullet_cd # <<>> => <>(bullet_cd = <<>>))
    /\ [][pc = "Shoot" /\ bullet_cd # <<>> => bullet_cd' = bullet_cd]_vars
    /\ [][bullet_cd # <<>> /\ bullet_cd' # <<>> => bullet_cd'[1] >= bullet_cd[1]]_vars

\* C19's case: the fire input is on while a timer that has already been ticked
\* is present; no bullet is shot and the timer is as the cooldown system left
\* it.
C19_Witness ==
    /\ pc = "FixedDone"
    /\ state = "InPlay"
    /\ fire
    /\ bullet_cd # <<>>
    /\ bullet_cd[1] > 0
    /\ shots = <<>>

====
